---- MODULE Spec2Model ----
(***************************************************************************)
(* Document versioning and re-indexing of agent/api.py                     *)
(* (upload_new_version, rollback_version, _parse_version, _bump_version).  *)
(*                                                                         *)
(* Python strings are modelled as sequences of one-character strings, so   *)
(* that strip / lower / replace / split / isdigit / int and the f-string   *)
(* formatting are computed as the code computes them.                      *)
(***************************************************************************)
EXTENDS Integers, Sequences, FiniteSets, TLC

\* ------------------------------------------------------------------------
\* Bounds of the model
\* ------------------------------------------------------------------------
\* longest version string enumerated as input of the version functions
MaxLen == 4
\* number of upload / rollback requests issued in one behaviour
MaxOps == 3
\* number of requests issued in one behaviour with overlapping requests
MaxConcOps == 2
\* longest language hint enumerated as input of the language resolver
MaxHintLen == 3
\* most pages of a PDF
MaxPages == 2

\* ------------------------------------------------------------------------
\* Python string primitives
\* ------------------------------------------------------------------------
\* Python's None (a one-element sequence whose element is not a character)
None == << "None" >>

Digits == << "0", "1", "2", "3", "4", "5", "6", "7", "8", "9" >>

IsDigitChar(c) == \E i \in 1..10 : Digits[i] = c

DigitVal(c) == (CHOOSE i \in 1..10 : Digits[i] = c) - 1

IsSpace(c) == c \in { " ", "\n" }

\* str.strip(): drop leading and trailing whitespace
RECURSIVE LStrip(_)
LStrip(s) == IF s # << >> /\ IsSpace(Head(s)) THEN LStrip(Tail(s)) ELSE s

RECURSIVE RStrip(_)
RStrip(s) ==
  IF s # << >> /\ IsSpace(s[Len(s)]) THEN RStrip(SubSeq(s, 1, Len(s) - 1)) ELSE s

Strip(s) == RStrip(LStrip(s))

\* str.lower() on the alphabet of the model
LowerChar(c) == IF c = "V" THEN "v" ELSE IF c = "A" THEN "a" ELSE c

Lower(s) == [i \in 1..Len(s) |-> LowerChar(s[i])]

\* str.replace(c, ''): every occurrence of c is removed
RECURSIVE RemoveAll(_, _)
RemoveAll(s, c) ==
  IF s = << >> THEN << >>
  ELSE IF Head(s) = c THEN RemoveAll(Tail(s), c)
  ELSE << Head(s) >> \o RemoveAll(Tail(s), c)

\* str.split(sep): always at least one (possibly empty) part
RECURSIVE Split(_, _)
Split(s, sep) ==
  IF \A i \in 1..Len(s) : s[i] # sep THEN << s >>
  ELSE LET k == CHOOSE i \in 1..Len(s) :
                   s[i] = sep /\ \A j \in 1..(i - 1) : s[j] # sep
       IN  << SubSeq(s, 1, k - 1) >> \o Split(SubSeq(s, k + 1, Len(s)), sep)

\* str.isdigit(): non-empty and all characters are digits
IsDigit(s) == s # << >> /\ \A i \in 1..Len(s) : IsDigitChar(s[i])

\* int(s) for a digit string
RECURSIVE ToInt(_)
ToInt(s) ==
  IF s = << >> THEN 0
  ELSE 10 * ToInt(SubSeq(s, 1, Len(s) - 1)) + DigitVal(s[Len(s)])

\* str(n) for a non-negative integer, as used by the f-strings
RECURSIVE IntToStr(_)
IntToStr(n) ==
  IF n < 10 THEN << Digits[n + 1] >>
  ELSE IntToStr(n \div 10) \o << Digits[(n % 10) + 1] >>

\* ------------------------------------------------------------------------
\* Version numbering
\* ------------------------------------------------------------------------
\* _parse_version: (major, minor) of a version string
_parse_version(v) ==
  IF v = None \/ v = << >> THEN << 1, 0 >>
  ELSE LET parts == Split(RemoveAll(Lower(Strip(v)), "v"), ".")
       IN  << IF Len(parts) > 0 /\ IsDigit(parts[1]) THEN ToInt(parts[1]) ELSE 1,
              IF Len(parts) > 1 /\ IsDigit(parts[2]) THEN ToInt(parts[2]) ELSE 0 >>

\* the mutant of _bump_version: a major bump keeps the minor number
BumpVersionKeepMinor(current, bump) ==
  LET mm == _parse_version(current)
  IN  IF bump = "major" THEN IntToStr(mm[1] + 1) \o << "." >> \o IntToStr(mm[2])
      ELSE IntToStr(mm[1]) \o << "." >> \o IntToStr(mm[2] + 1)

\* _bump_version: the next version string
_bump_version(current, bump) ==
  LET mm == _parse_version(current)
  IN  IF bump = "major" THEN IntToStr(mm[1] + 1) \o << ".", "0" >>
      ELSE IntToStr(mm[1]) \o << "." >> \o IntToStr(mm[2] + 1)

\* ------------------------------------------------------------------------
\* Data of the store
\* ------------------------------------------------------------------------
\* the two request handlers that may run at the same time
Procs == {1, 2}

\* the one stored document, and an id no document has
DocId == "d1"
MissingDocId == "d0"

\* markers of an absent metadata key
NoKey == "<absent>"
NoSize == -1

\* change summary of the synthesized baseline (one token of the string model)
InitialSummary == << "Initial version snapshot" >>

V10 == << "1", ".", "0" >>

\* metadata.version of the document at the start
InitVersions == { None, << " " >>, V10, << "v", "2" >> }

\* contents, with the number of chunks the chunker makes of each
NumChunks(content) ==
  CASE content = "A" -> 2
    [] content = "B" -> 2
    [] content = "C" -> 1
    [] OTHER -> 0

\* len(raw) of an uploaded content
ByteSize(content) ==
  CASE content = "B" -> 20
    [] content = "C" -> 10
    [] OTHER -> 0

\* chunker.chunk_document + embedder.embed_chunks: the ordered chunk list
\* of one content and metadata pair (title and source do not reach a row)
chunk_document(content, metadata) ==
  [k \in 1..NumChunks(content) |->
     [content |-> << content, k - 1 >>, index |-> k - 1, metadata |-> metadata]]

InitMeta(v) ==
  [version |-> v, last_upload_filename |-> NoKey, last_upload_mime |-> NoKey,
   file_path |-> NoKey, file_size |-> NoSize]

\* rows of the chunks table made from a chunk list by request number op
ChunkRows(op, doc_id, seq) ==
  { [id |-> << op, seq[k].index >>, document_id |-> doc_id,
     chunk_index |-> seq[k].index, content |-> seq[k].content,
     metadata |-> seq[k].metadata] : k \in 1..Len(seq) }

\* ------------------------------------------------------------------------
\* Requests
\* ------------------------------------------------------------------------
FileB == [filename |-> "b.txt", content_type |-> "text/plain", content |-> "B"]
FileC == [filename |-> "", content_type |-> "text/plain", content |-> "C"]

FixTypo == << "f", "i", "x" >>

\* form fields of POST /documents/{id}/versions
UploadInputs ==
  { [document_id |-> DocId, file |-> FileB, change_summary |-> FixTypo,
     bump |-> "minor", version |-> None],
    [document_id |-> DocId, file |-> FileC, change_summary |-> FixTypo,
     bump |-> "major", version |-> None],
    [document_id |-> DocId, file |-> FileC, change_summary |-> FixTypo,
     bump |-> "major", version |-> << " ", " " >>],
    [document_id |-> DocId, file |-> FileB, change_summary |-> FixTypo,
     bump |-> "major", version |-> << " ", "3", ".", "1", " " >>],
    [document_id |-> DocId, file |-> FileB, change_summary |-> FixTypo,
     bump |-> "minor", version |-> V10],
    [document_id |-> DocId, file |-> FileC, change_summary |-> FixTypo,
     bump |-> "minor", version |-> << "a", "." >>],
    [document_id |-> DocId, file |-> FileB, change_summary |-> << " " >>,
     bump |-> "minor", version |-> None],
    [document_id |-> DocId, file |-> FileB, change_summary |-> << >>,
     bump |-> "minor", version |-> None],
    [document_id |-> MissingDocId, file |-> FileB, change_summary |-> FixTypo,
     bump |-> "minor", version |-> None] }

\* the uploads issued while requests overlap
ConcUploadInputs ==
  { r \in UploadInputs :
      /\ r.document_id = DocId /\ r.version = None
      /\ r.change_summary = FixTypo }

NoFile == [filename |-> "", content_type |-> "", content |-> ""]

\* a selector of the compare request: absent, 'current', or a snapshot id
NoSel == [kind |-> "none", id |-> 0]
Current == [kind |-> "current", id |-> 0]
Id(n) == [kind |-> "id", id |-> n]

\* CompareRequest with no field set
NoPayload == [left_version_id |-> NoSel, right_version_id |-> NoSel,
              left |-> NoSel, right |-> NoSel]

NoReq ==
  [kind |-> "none", op |-> 0, document_id |-> DocId, file |-> NoFile,
   change_summary |-> << >>, bump |-> "minor", version |-> None,
   version_id |-> 0, payload |-> NoPayload]

\* local variables of a handler
NoLoc ==
  [doc_content |-> "", meta |-> InitMeta(None), current_version |-> None,
   prev_ver |-> None, new_version |-> None, new_metadata |-> InitMeta(None),
   old_content |-> "", ver_version |-> None, embedded_chunks |-> << >>,
   i |-> 0, targets |-> {}, skipped |-> FALSE]

\* the writes of an open transaction, invisible to others until commit
NoTx ==
  [active |-> FALSE, aborted |-> FALSE, versions |-> {}, deleted |-> {},
   chunks |-> {}, doc_written |-> FALSE, doc_content |-> "",
   doc_metadata |-> InitMeta(None)]

\* the body of an empty diff, and of a response that is not a diff
NoDiff == << >>

NoResp == [ok |-> FALSE, status |-> 0, version |-> None, failed_at |-> "none",
           diff |-> NoDiff]

VARIABLES
  documents,          \* documents table: DocId -> [content, metadata]
  document_versions,  \* document_versions table (committed rows)
  chunks,             \* chunks table (committed rows)
  pc,                 \* position of each handler
  req,                \* request each handler is serving
  loc,                \* local variables of each handler
  tx,                 \* open transaction of each handler
  resp,               \* response of each handler
  opCount,            \* number of requests issued so far
  pre,                \* the store as it was when the request was issued
  lastChange,         \* last committed content change
  fn,                 \* the version functions applied to one input
  ocr,                \* one call of extract_text
  lang                \* the language resolver applied to one input

vars == << documents, document_versions, chunks, pc, req, loc, tx, resp,
           opCount, pre, lastChange, fn, ocr, lang >>

store == << documents, document_versions, chunks >>

\* metadata.version of the document at the start of overlapping requests
ConcInitVersions == { None, V10 }

\* value of pre while no request is being served
NoPre == << [d \in {DocId} |-> [content |-> "", metadata |-> InitMeta(None)]],
            {}, {} >>

NoFn == [pc |-> "off", v |-> None, bump |-> "minor",
         parsed |-> << 0, 0 >>, bumped |-> << >>]

\* ------------------------------------------------------------------------
\* Data of the text extraction (ingestion/ocr.py)
\* ------------------------------------------------------------------------
\* OCRResult, or the exception that left extract_text
NoResult ==
  [ok |-> FALSE, error |-> "none", detail |-> "none", errors |-> << >>,
   text |-> << >>, engine |-> "none", source |-> "none", used_ocr |-> FALSE,
   languages |-> << >>, page_count |-> 0]

\* which of Pillow, pytesseract, pdf2image and pypdf could be imported
AllDeps == [Image |-> TRUE, pytesseract |-> TRUE,
            convert_from_path |-> TRUE, PdfReader |-> TRUE]

\* one call of extract_text: its inputs, its locals, the calls it has made on
\* the extraction, rasterization and recognition capabilities (log), the page
\* images closed so far (released) and what it returned or raised (result)
NoOcr ==
  [pc |-> "off", kind |-> "none", hint |-> None, deps |-> AllDeps,
   reader_ok |-> TRUE, direct_pages |-> << >>, candidates |-> << >>,
   images |-> 0, page |-> 0, li |-> 0, errors |-> << >>,
   ocr_text_chunks |-> << >>, used_languages |-> << >>, released |-> {},
   pending |-> NoResult, log |-> << >>, result |-> NoResult]

NoLang ==
  [pc |-> "off", requested |-> None, default |-> << >>, fallback |-> << >>,
   attempts |-> << >>]

InitStore(versions, fns) ==
  /\ \E v \in versions :
       /\ documents = [d \in {DocId} |-> [content |-> "A", metadata |-> InitMeta(v)]]
       /\ chunks = ChunkRows(0, DocId, chunk_document("A", InitMeta(v)))
  /\ document_versions = {}
  /\ pc = [p \in Procs |-> "idle"]
  /\ req = [p \in Procs |-> NoReq]
  /\ loc = [p \in Procs |-> NoLoc]
  /\ tx = [p \in Procs |-> NoTx]
  /\ resp = [p \in Procs |-> NoResp]
  /\ opCount = 0
  /\ pre = [p \in Procs |-> NoPre]
  /\ lastChange = [kind |-> "none", version_id |-> 0]
  /\ fn \in fns

InitFrom(versions, fns) ==
  /\ ocr = NoOcr
  /\ lang = NoLang
  /\ InitStore(versions, fns)

Init == InitFrom(InitVersions, { NoFn })

InitConc == InitFrom(ConcInitVersions, { NoFn })

\* ------------------------------------------------------------------------
\* The transactional store (PostgreSQL, READ COMMITTED)
\* ------------------------------------------------------------------------
\* rows of document_versions a statement of p sees: committed ones and its own
VisibleVersions(p) == document_versions \cup tx[p].versions

\* chunk ids on which another open transaction holds a row lock
LockedByOther(p) == UNION { tx[q].deleted : q \in Procs \ {p} }

\* the document row is locked by the uncommitted UPDATE of another handler
DocLockedByOther(p) == \E q \in Procs \ {p} : tx[q].doc_written

\* ids of the committed chunks of a document
ChunkIdsOf(doc_id) == { c.id : c \in { x \in chunks : x.document_id = doc_id } }

\* the mutant of Raise: the chunk deletion is not undone with the rest
RaiseKeepingDelete(p, status) ==
  /\ pc' = [pc EXCEPT ![p] = "done"]
  /\ tx' = [tx EXCEPT ![p] = NoTx]
  /\ resp' = [resp EXCEPT ![p] = [ok |-> FALSE, status |-> status,
                                  version |-> None, failed_at |-> pc[p],
                                  diff |-> NoDiff]]
  /\ chunks' = { c \in chunks : c.id \notin tx[p].deleted }
  /\ UNCHANGED << documents, document_versions, req, loc, opCount,
                  pre, lastChange, fn, ocr, lang >>

\* an exception leaves the `async with conn.transaction()` block: the
\* transaction is rolled back and the handler answers with an error
Raise(p, status) ==
  /\ pc' = [pc EXCEPT ![p] = "done"]
  /\ tx' = [tx EXCEPT ![p] = NoTx]
  /\ resp' = [resp EXCEPT ![p] = [ok |-> FALSE, status |-> status,
                                  version |-> None, failed_at |-> pc[p],
                                  diff |-> NoDiff]]
  /\ UNCHANGED << documents, document_versions, chunks, req, loc, opCount,
                  pre, lastChange, fn, ocr, lang >>

\* the mutant of Commit: the deleted chunks are not restored with the rest
\* (the DELETE ran outside the transaction)
CommitKeepingOldChunks(p) ==
  /\ document_versions' = document_versions \cup tx[p].versions
  /\ chunks' = chunks \cup tx[p].chunks
  /\ documents' =
       IF tx[p].doc_written
       THEN [documents EXCEPT ![req[p].document_id] =
               [content |-> tx[p].doc_content, metadata |-> tx[p].doc_metadata]]
       ELSE documents

\* leaving the transaction block normally: the writes become visible at once
Commit(p) ==
  /\ document_versions' = document_versions \cup tx[p].versions
  /\ chunks' = { c \in chunks : c.id \notin tx[p].deleted } \cup tx[p].chunks
  /\ documents' =
       IF tx[p].doc_written
       THEN [documents EXCEPT ![req[p].document_id] =
               [content |-> tx[p].doc_content, metadata |-> tx[p].doc_metadata]]
       ELSE documents

\* ------------------------------------------------------------------------
\* upload_new_version
\* ------------------------------------------------------------------------
\* the mutant of UploadRequestFrom: only the empty summary is refused, a
\* summary of blanks is accepted
UploadRequestFromNoStrip(p, inputs) ==
  /\ pc[p] = "idle"
  /\ opCount < MaxOps
  /\ \E r \in inputs :
       /\ req' = [req EXCEPT ![p] =
                    [kind |-> "upload", op |-> opCount + 1,
                     document_id |-> r.document_id, file |-> r.file,
                     change_summary |-> r.change_summary, bump |-> r.bump,
                     version |-> r.version, version_id |-> 0,
                     payload |-> NoPayload]]
       /\ IF r.change_summary = << >>
          THEN /\ pc' = [pc EXCEPT ![p] = "done"]
               /\ resp' = [resp EXCEPT ![p] = [ok |-> FALSE, status |-> 400,
                                version |-> None, failed_at |-> "validate",
                                diff |-> NoDiff]]
               /\ tx' = tx
          ELSE /\ pc' = [pc EXCEPT ![p] = "u_get_doc"]
               /\ resp' = [resp EXCEPT ![p] = NoResp]
               /\ tx' = [tx EXCEPT ![p] = [NoTx EXCEPT !.active = TRUE]]
  /\ opCount' = opCount + 1
  /\ pre' = [pre EXCEPT ![p] = store]
  /\ loc' = [loc EXCEPT ![p] = NoLoc]
  /\ UNCHANGED << documents, document_versions, chunks, lastChange, fn, ocr, lang >>

\* the request arrives; a blank change summary is refused before any work
UploadRequestFrom(p, inputs) ==
  /\ pc[p] = "idle"
  /\ opCount < MaxOps
  /\ \E r \in inputs :
       /\ req' = [req EXCEPT ![p] =
                    [kind |-> "upload", op |-> opCount + 1,
                     document_id |-> r.document_id, file |-> r.file,
                     change_summary |-> r.change_summary, bump |-> r.bump,
                     version |-> r.version, version_id |-> 0,
                     payload |-> NoPayload]]
       /\ IF r.change_summary = << >> \/ Strip(r.change_summary) = << >>
          THEN /\ pc' = [pc EXCEPT ![p] = "done"]
               /\ resp' = [resp EXCEPT ![p] = [ok |-> FALSE, status |-> 400,
                                version |-> None, failed_at |-> "validate",
                                diff |-> NoDiff]]
               /\ tx' = tx
          ELSE /\ pc' = [pc EXCEPT ![p] = "u_get_doc"]
               /\ resp' = [resp EXCEPT ![p] = NoResp]
               /\ tx' = [tx EXCEPT ![p] = [NoTx EXCEPT !.active = TRUE]]
  /\ opCount' = opCount + 1
  /\ pre' = [pre EXCEPT ![p] = store]
  /\ loc' = [loc EXCEPT ![p] = NoLoc]
  /\ UNCHANGED << documents, document_versions, chunks, lastChange, fn, ocr, lang >>

UploadRequest(p) == UploadRequestFrom(p, UploadInputs)

\* _get_document_core, and the read of metadata.version
UploadGetDoc(p) ==
  /\ pc[p] = "u_get_doc"
  /\ IF req[p].document_id \notin DOMAIN documents
     THEN Raise(p, 404)
     ELSE LET doc == documents[req[p].document_id]
          IN  /\ loc' = [loc EXCEPT ![p].doc_content = doc.content,
                                    ![p].meta = doc.metadata,
                                    ![p].current_version = doc.metadata.version]
              /\ pc' = [pc EXCEPT ![p] = "u_baseline_check"]
              /\ UNCHANGED << documents, document_versions, chunks, req, tx,
                              resp, opCount, pre, lastChange, fn, ocr, lang >>

\* prev_ver: the current version if it is a non-blank string, else "1.0"
PrevVer(current_version) ==
  IF current_version # None /\ Strip(current_version) # << >>
  THEN current_version ELSE V10

\* the mutant of BaselineExists: the existence check always answers no
BaselineNeverExists(p, prev_ver) == FALSE

\* SELECT 1 FROM document_versions WHERE document_id = .. AND version = ..
BaselineExists(p, prev_ver) ==
  \E r \in VisibleVersions(p) :
     r.document_id = req[p].document_id /\ r.version = prev_ver

\* the existence check of the baseline snapshot
UploadBaselineCheck(p) ==
  /\ pc[p] = "u_baseline_check"
  /\ LET prev_ver == PrevVer(loc[p].current_version)
     IN  /\ loc' = [loc EXCEPT ![p].prev_ver = prev_ver]
         /\ pc' = [pc EXCEPT ![p] =
                     IF BaselineExists(p, prev_ver) THEN "u_chunk"
                     ELSE "u_baseline_insert"]
  /\ UNCHANGED << documents, document_versions, chunks, req, tx, resp,
                  opCount, pre, lastChange, fn, ocr, lang >>

\* the baseline row: the pre-update content and metadata at prev_ver
BaselineRow(p) ==
  [id |-> 2 * req[p].op, document_id |-> req[p].document_id,
   version |-> loc[p].prev_ver, change_summary |-> InitialSummary,
   content |-> loc[p].doc_content, metadata |-> loc[p].meta]

\* INSERT of the baseline snapshot, then current_version falls back to it
UploadBaselineInsert(p) ==
  /\ pc[p] = "u_baseline_insert"
  /\ tx' = [tx EXCEPT ![p].versions = @ \cup { BaselineRow(p) }]
  /\ loc' = [loc EXCEPT ![p].current_version =
               IF @ = None \/ @ = << >> THEN loc[p].prev_ver ELSE @]
  /\ pc' = [pc EXCEPT ![p] = "u_chunk"]
  /\ UNCHANGED << documents, document_versions, chunks, req, resp, opCount,
                  pre, lastChange, fn, ocr, lang >>

\* an exception inside the try block of the baseline is caught and logged;
\* a failed statement leaves the transaction aborted, while an error raised
\* before the statement reaches the server (the INSERT's arguments) does not
UploadBaselineFails(p) ==
  /\ pc[p] \in { "u_baseline_check", "u_baseline_insert" }
  /\ \E aborted \in BOOLEAN :
       /\ pc[p] = "u_baseline_check" => aborted
       /\ tx' = [tx EXCEPT ![p].aborted = aborted]
  /\ loc' = [loc EXCEPT ![p].skipped = TRUE]
  /\ pc' = [pc EXCEPT ![p] = "u_chunk"]
  /\ UNCHANGED << documents, document_versions, chunks, req, resp, opCount,
                  pre, lastChange, fn, ocr, lang >>

\* the mutant of NewVersion: the explicit version is ignored
NewVersionAlwaysBumps(version, current_version, bump) ==
  _bump_version(current_version, bump)

\* new_version: the explicit version, trimmed, or else the bump
NewVersion(version, current_version, bump) ==
  IF version # None /\ Strip(version) # << >>
  THEN Strip(version) ELSE _bump_version(current_version, bump)

\* the mutant of NewMetadata: the version field is not updated
NewMetadataKeepsVersion(meta, new_version, file) ==
  IF file.filename # ""
  THEN [meta EXCEPT !.last_upload_filename = file.filename,
                    !.last_upload_mime = file.content_type,
                    !.file_path = file.filename,
                    !.file_size = ByteSize(file.content)]
  ELSE meta

\* new_metadata: a copy of the metadata with the version and the file info
NewMetadata(meta, new_version, file) ==
  IF file.filename # ""
  THEN [meta EXCEPT !.version = new_version,
                    !.last_upload_filename = file.filename,
                    !.last_upload_mime = file.content_type,
                    !.file_path = file.filename,
                    !.file_size = ByteSize(file.content)]
  ELSE [meta EXCEPT !.version = new_version]

\* next version, updated metadata, chunking and embedding
UploadChunk(p) ==
  /\ pc[p] = "u_chunk"
  /\ LET nv == NewVersion(req[p].version, loc[p].current_version, req[p].bump)
         nm == NewMetadata(loc[p].meta, nv, req[p].file)
     IN  loc' = [loc EXCEPT ![p].new_version = nv,
                            ![p].new_metadata = nm,
                            ![p].embedded_chunks =
                               chunk_document(req[p].file.content, nm),
                            ![p].i = 0]
  /\ pc' = [pc EXCEPT ![p] = "u_delete"]
  /\ UNCHANGED << documents, document_versions, chunks, req, tx, resp,
                  opCount, pre, lastChange, fn, ocr, lang >>

\* DELETE FROM chunks WHERE document_id = ..: every chunk row the statement
\* sees is locked and deleted; in an aborted transaction the statement fails
DeleteChunks(p, here, next) ==
  /\ pc[p] = here
  /\ IF tx[p].aborted
     THEN Raise(p, 500)
     ELSE /\ ChunkIdsOf(req[p].document_id) \cap LockedByOther(p) = {}
          /\ tx' = [tx EXCEPT ![p].deleted = ChunkIdsOf(req[p].document_id)]
          /\ pc' = [pc EXCEPT ![p] = next]
          /\ UNCHANGED << documents, document_versions, chunks, req, loc, resp,
                          opCount, pre, lastChange, fn, ocr, lang >>

\* the DELETE meets a row locked by another transaction and waits; the rows
\* it works on are those that were visible when it started
DeleteChunksBlocked(p, here, wait) ==
  /\ pc[p] = here
  /\ ~tx[p].aborted
  /\ ChunkIdsOf(req[p].document_id) \cap LockedByOther(p) # {}
  /\ loc' = [loc EXCEPT ![p].targets = ChunkIdsOf(req[p].document_id)]
  /\ pc' = [pc EXCEPT ![p] = wait]
  /\ UNCHANGED << documents, document_versions, chunks, req, tx, resp,
                  opCount, pre, lastChange, fn, ocr, lang >>

\* the lock holder has ended: rows it deleted are skipped, rows it inserted
\* meanwhile were never seen by the waiting statement
DeleteChunksResume(p, wait, next) ==
  /\ pc[p] = wait
  /\ loc[p].targets \cap LockedByOther(p) = {}
  /\ tx' = [tx EXCEPT ![p].deleted =
              loc[p].targets \cap ChunkIdsOf(req[p].document_id)]
  /\ pc' = [pc EXCEPT ![p] = next]
  /\ UNCHANGED << documents, document_versions, chunks, req, loc, resp,
                  opCount, pre, lastChange, fn, ocr, lang >>

\* one pass of `for ch in embedded_chunks`: INSERT INTO chunks
InsertChunk(p, here, next) ==
  /\ pc[p] = here
  /\ IF loc[p].i < Len(loc[p].embedded_chunks)
     THEN /\ tx' = [tx EXCEPT ![p].chunks = @ \cup
                      ChunkRows(req[p].op, req[p].document_id,
                                << loc[p].embedded_chunks[loc[p].i + 1] >>)]
          /\ loc' = [loc EXCEPT ![p].i = @ + 1]
          /\ pc' = pc
     ELSE /\ pc' = [pc EXCEPT ![p] = next]
          /\ UNCHANGED << tx, loc >>
  /\ UNCHANGED << documents, document_versions, chunks, req, resp, opCount,
                  pre, lastChange, fn, ocr, lang >>

\* UPDATE documents SET content = .., metadata = ..; waits for the row lock
UpdateDocument(p, here, next, content, metadata) ==
  /\ pc[p] = here
  /\ ~DocLockedByOther(p)
  /\ tx' = [tx EXCEPT ![p].doc_written = TRUE,
                      ![p].doc_content = content,
                      ![p].doc_metadata = metadata]
  /\ pc' = [pc EXCEPT ![p] = next]
  /\ UNCHANGED << documents, document_versions, chunks, req, loc, resp,
                  opCount, pre, lastChange, fn, ocr, lang >>

\* the mutant of UploadDelete: the snapshot insert follows the deletion at once
UploadDeleteThenVersion(p) == DeleteChunks(p, "u_delete", "u_insert_version")

UploadDelete(p) == DeleteChunks(p, "u_delete", "u_insert_chunk")

UploadDeleteBlocked(p) == DeleteChunksBlocked(p, "u_delete", "u_delete_wait")

UploadDeleteResume(p) == DeleteChunksResume(p, "u_delete_wait", "u_insert_chunk")

UploadInsertChunk(p) == InsertChunk(p, "u_insert_chunk", "u_insert_version")

\* the mutant of VersionRow: the snapshot takes the place of the row that
\* already carries its version, when there is one
VersionRowReplacing(p) ==
  LET same == { r \in VisibleVersions(p) :
                  r.document_id = req[p].document_id
                  /\ r.version = loc[p].new_version }
  IN  [id |-> IF same = {} THEN 2 * req[p].op + 1
              ELSE (CHOOSE r \in same : TRUE).id,
       document_id |-> req[p].document_id,
       version |-> loc[p].new_version, change_summary |-> req[p].change_summary,
       content |-> req[p].file.content, metadata |-> loc[p].new_metadata]

\* the snapshot of the new version
VersionRow(p) ==
  [id |-> 2 * req[p].op + 1, document_id |-> req[p].document_id,
   version |-> loc[p].new_version, change_summary |-> req[p].change_summary,
   content |-> req[p].file.content, metadata |-> loc[p].new_metadata]

\* INSERT INTO document_versions of the new version
UploadInsertVersion(p) ==
  /\ pc[p] = "u_insert_version"
  /\ tx' = [tx EXCEPT ![p].versions = @ \cup { VersionRow(p) }]
  /\ pc' = [pc EXCEPT ![p] = "u_update_doc"]
  /\ UNCHANGED << documents, document_versions, chunks, req, loc, resp,
                  opCount, pre, lastChange, fn, ocr, lang >>

\* UPDATE documents with the uploaded content and the new metadata
UploadUpdateDoc(p) ==
  UpdateDocument(p, "u_update_doc", "u_commit",
                 req[p].file.content, loc[p].new_metadata)

\* the transaction block is left and {"ok": True, "version": ..} returned
UploadCommit(p) ==
  /\ pc[p] = "u_commit"
  /\ Commit(p)
  /\ tx' = [tx EXCEPT ![p] = NoTx]
  /\ resp' = [resp EXCEPT ![p] = [ok |-> TRUE, status |-> 200,
                 version |-> loc[p].new_version, failed_at |-> "none",
                 diff |-> NoDiff]]
  /\ lastChange' = [kind |-> "upload", version_id |-> 2 * req[p].op + 1]
  /\ pc' = [pc EXCEPT ![p] = "done"]
  /\ UNCHANGED << req, loc, opCount, pre, fn, ocr, lang >>

\* a step of the upload outside the baseline's try block raises
\* (chunking, embedding, a statement of the store, the commit)
UploadFails(p) ==
  /\ pc[p] \in { "u_get_doc", "u_chunk", "u_delete", "u_insert_chunk",
                 "u_insert_version", "u_update_doc", "u_commit" }
  /\ Raise(p, 500)

\* ------------------------------------------------------------------------
\* rollback_version
\* ------------------------------------------------------------------------
RollbackRequest(p) ==
  /\ pc[p] = "idle"
  /\ opCount < MaxOps
  /\ \E d \in { DocId, MissingDocId },
        vid \in { r.id : r \in document_versions } \cup { 0 } :
       req' = [req EXCEPT ![p] =
                 [NoReq EXCEPT !.kind = "rollback", !.op = opCount + 1,
                               !.document_id = d, !.version_id = vid]]
  /\ pc' = [pc EXCEPT ![p] = "r_get_version"]
  /\ resp' = [resp EXCEPT ![p] = NoResp]
  /\ tx' = [tx EXCEPT ![p] = [NoTx EXCEPT !.active = TRUE]]
  /\ opCount' = opCount + 1
  /\ pre' = [pre EXCEPT ![p] = store]
  /\ loc' = [loc EXCEPT ![p] = NoLoc]
  /\ UNCHANGED << documents, document_versions, chunks, lastChange, fn, ocr, lang >>

\* the mutant of RollbackGetVersion: the snapshot is looked up by its id alone
RollbackGetVersionAnyDocument(p) ==
  /\ pc[p] = "r_get_version"
  /\ LET found == { r \in VisibleVersions(p) :
                      r.id = req[p].version_id }
     IN  IF found = {}
         THEN Raise(p, 404)
         ELSE LET ver == CHOOSE r \in found : TRUE
              IN  /\ loc' = [loc EXCEPT ![p].old_content = ver.content,
                                        ![p].meta = ver.metadata,
                                        ![p].ver_version = ver.version]
                  /\ pc' = [pc EXCEPT ![p] = "r_get_doc"]
                  /\ UNCHANGED << documents, document_versions, chunks, req,
                                  tx, resp, opCount, pre, lastChange, fn, ocr, lang >>

\* SELECT version, content, metadata of the target snapshot
RollbackGetVersion(p) ==
  /\ pc[p] = "r_get_version"
  /\ LET found == { r \in VisibleVersions(p) :
                      r.document_id = req[p].document_id
                      /\ r.id = req[p].version_id }
     IN  IF found = {}
         THEN Raise(p, 404)
         ELSE LET ver == CHOOSE r \in found : TRUE
              IN  /\ loc' = [loc EXCEPT ![p].old_content = ver.content,
                                        ![p].meta = ver.metadata,
                                        ![p].ver_version = ver.version]
                  /\ pc' = [pc EXCEPT ![p] = "r_get_doc"]
                  /\ UNCHANGED << documents, document_versions, chunks, req,
                                  tx, resp, opCount, pre, lastChange, fn, ocr, lang >>

\* the current document row, for title and source
RollbackGetDoc(p) ==
  /\ pc[p] = "r_get_doc"
  /\ IF req[p].document_id \notin DOMAIN documents
     THEN Raise(p, 404)
     ELSE /\ pc' = [pc EXCEPT ![p] = "r_chunk"]
          /\ UNCHANGED << documents, document_versions, chunks, req, loc, tx,
                          resp, opCount, pre, lastChange, fn, ocr, lang >>

\* the mutant of RestoredMetadata: the restored metadata gets a bumped version
RestoredMetadataBumped(old_meta) ==
  [old_meta EXCEPT !.version = _bump_version(old_meta.version, "minor")]

\* new_metadata = dict(old_meta or {})
RestoredMetadata(old_meta) == old_meta

\* chunking and embedding of the snapshot's content
RollbackChunk(p) ==
  /\ pc[p] = "r_chunk"
  /\ LET nm == RestoredMetadata(loc[p].meta)
     IN  loc' = [loc EXCEPT ![p].new_metadata = nm,
                            ![p].embedded_chunks =
                               chunk_document(loc[p].old_content, nm),
                            ![p].i = 0]
  /\ pc' = [pc EXCEPT ![p] = "r_delete"]
  /\ UNCHANGED << documents, document_versions, chunks, req, tx, resp,
                  opCount, pre, lastChange, fn, ocr, lang >>

RollbackDelete(p) == DeleteChunks(p, "r_delete", "r_insert_chunk")

RollbackDeleteBlocked(p) == DeleteChunksBlocked(p, "r_delete", "r_delete_wait")

RollbackDeleteResume(p) == DeleteChunksResume(p, "r_delete_wait", "r_insert_chunk")

RollbackInsertChunk(p) == InsertChunk(p, "r_insert_chunk", "r_update_doc")

\* the mutant of RollbackUpdateDoc: the rollback records a snapshot as an
\* upload does
RollbackUpdateDocRecording(p) ==
  /\ pc[p] = "r_update_doc"
  /\ ~DocLockedByOther(p)
  /\ tx' = [tx EXCEPT ![p].doc_written = TRUE,
                      ![p].doc_content = loc[p].old_content,
                      ![p].doc_metadata = loc[p].new_metadata,
                      ![p].versions = @ \cup
                        { [id |-> 2 * req[p].op + 1,
                           document_id |-> req[p].document_id,
                           version |-> loc[p].ver_version,
                           change_summary |-> << "rollback" >>,
                           content |-> loc[p].old_content,
                           metadata |-> loc[p].new_metadata] }]
  /\ pc' = [pc EXCEPT ![p] = "r_commit"]
  /\ UNCHANGED << documents, document_versions, chunks, req, loc, resp,
                  opCount, pre, lastChange, fn, ocr, lang >>

\* UPDATE documents with the snapshot's content and metadata
RollbackUpdateDoc(p) ==
  UpdateDocument(p, "r_update_doc", "r_commit",
                 loc[p].old_content, loc[p].new_metadata)

\* the transaction block is left and the snapshot's version returned
RollbackCommit(p) ==
  /\ pc[p] = "r_commit"
  /\ Commit(p)
  /\ tx' = [tx EXCEPT ![p] = NoTx]
  /\ resp' = [resp EXCEPT ![p] = [ok |-> TRUE, status |-> 200,
                 version |-> loc[p].ver_version, failed_at |-> "none",
                 diff |-> NoDiff]]
  /\ lastChange' = [kind |-> "rollback", version_id |-> req[p].version_id]
  /\ pc' = [pc EXCEPT ![p] = "done"]
  /\ UNCHANGED << req, loc, opCount, pre, fn, ocr, lang >>

\* a step of the rollback raises
RollbackFails(p) ==
  /\ pc[p] \in { "r_get_version", "r_get_doc", "r_chunk", "r_delete",
                 "r_insert_chunk", "r_update_doc", "r_commit" }
  /\ Raise(p, 500)

\* ------------------------------------------------------------------------
\* compare_versions
\* ------------------------------------------------------------------------
\* a snapshot id no row has
UnknownId == 99

\* `a or b`: the first selector that is set
SelOr(a, b) == IF a.kind # "none" THEN a ELSE b

\* get_content: the content a selector resolves to, "" when there is none
get_content(document_id, selector) ==
  IF selector.kind = "none" THEN ""
  ELSE IF selector.kind = "current"
  THEN (IF document_id \in DOMAIN documents
        THEN documents[document_id].content ELSE "")
  ELSE LET rows == { r \in document_versions :
                       r.document_id = document_id /\ r.id = selector.id }
       IN  IF rows = {} THEN "" ELSE (CHOOSE r \in rows : TRUE).content

\* splitlines(keepends=True) of a content, each content being one line
Lines(content) == IF content = "" THEN << >> ELSE << content >>

DiffLine(op, text, id) == [op |-> op, text |-> text, id |-> id]

\* difflib.unified_diff of two contents: nothing when they are equal, else
\* the two file headers, the removed lines and the added lines
unified_diff(left, right, left_sel, right_sel) ==
  IF Lines(left) = Lines(right) THEN NoDiff
  ELSE << DiffLine("---", left_sel.kind, left_sel.id),
          DiffLine("+++", right_sel.kind, right_sel.id) >>
       \o [i \in 1..Len(Lines(left)) |-> DiffLine("-", Lines(left)[i], 0)]
       \o [i \in 1..Len(Lines(right)) |-> DiffLine("+", Lines(right)[i], 0)]

\* the bodies of POST /documents/{id}/versions/compare
ComparePayloads ==
  { [NoPayload EXCEPT !.left = l, !.right_version_id = r] :
      l \in { NoSel, Current, Id(UnknownId) },
      r \in { NoSel, Current, Id(UnknownId) }
              \cup { Id(v.id) : v \in document_versions } }
  \cup { [NoPayload EXCEPT !.left = Current, !.left_version_id = Id(v.id),
                           !.right = Id(v.id), !.right_version_id = Current] :
           v \in document_versions }

\* compare_versions: both selectors are resolved and the diff is returned;
\* a failing read is answered with 500
Compare(p) ==
  /\ pc[p] = "idle"
  /\ opCount < MaxOps
  /\ \E d \in { DocId, MissingDocId }, payload \in ComparePayloads,
        fails \in BOOLEAN :
       LET left_sel == SelOr(payload.left, SelOr(payload.left_version_id, Current))
           right_sel == SelOr(payload.right, payload.right_version_id)
       IN  /\ req' = [req EXCEPT ![p] =
                        [NoReq EXCEPT !.kind = "compare", !.op = opCount + 1,
                                      !.document_id = d, !.payload = payload]]
           /\ resp' = [resp EXCEPT ![p] =
                 IF right_sel.kind = "none"
                 THEN [NoResp EXCEPT !.status = 400, !.failed_at = "validate"]
                 ELSE IF fails
                 THEN [NoResp EXCEPT !.status = 500, !.failed_at = "get_content"]
                 ELSE [NoResp EXCEPT
                         !.ok = TRUE, !.status = 200,
                         !.diff = unified_diff(get_content(d, left_sel),
                                               get_content(d, right_sel),
                                               left_sel, right_sel)]]
  /\ pc' = [pc EXCEPT ![p] = "done"]
  /\ opCount' = opCount + 1
  /\ pre' = [pre EXCEPT ![p] = store]
  /\ loc' = [loc EXCEPT ![p] = NoLoc]
  /\ UNCHANGED << documents, document_versions, chunks, tx, lastChange, fn,
                  ocr, lang >>

\* the response has been delivered; the handler is free again
Return(p) ==
  /\ pc[p] = "done"
  /\ pc' = [pc EXCEPT ![p] = "idle"]
  /\ req' = [req EXCEPT ![p] = NoReq]
  /\ loc' = [loc EXCEPT ![p] = NoLoc]
  /\ resp' = [resp EXCEPT ![p] = NoResp]
  /\ pre' = [pre EXCEPT ![p] = NoPre]
  /\ UNCHANGED << documents, document_versions, chunks, tx, opCount,
                  lastChange, fn, ocr, lang >>

\* ------------------------------------------------------------------------
\* Specifications
\* ------------------------------------------------------------------------
\* no other handler is serving a request
Quiet(p) == \A q \in Procs \ {p} : pc[q] = "idle"

Step(p) ==
  \/ UploadGetDoc(p)
  \/ UploadBaselineCheck(p)
  \/ UploadBaselineInsert(p)
  \/ UploadBaselineFails(p)
  \/ UploadChunk(p)
  \/ UploadDelete(p)
  \/ UploadInsertChunk(p)
  \/ UploadInsertVersion(p)
  \/ UploadUpdateDoc(p)
  \/ UploadCommit(p)
  \/ UploadFails(p)
  \/ RollbackGetVersion(p)
  \/ RollbackGetDoc(p)
  \/ RollbackChunk(p)
  \/ RollbackDelete(p)
  \/ RollbackInsertChunk(p)
  \/ RollbackUpdateDoc(p)
  \/ RollbackCommit(p)
  \/ RollbackFails(p)
  \/ Return(p)

\* requests served one after the other
Next ==
  \E p \in Procs :
    \/ Quiet(p) /\ UploadRequest(p)
    \/ Quiet(p) /\ RollbackRequest(p)
    \/ Quiet(p) /\ Compare(p)
    \/ Step(p)

Spec == Init /\ [][Next]_vars

\* requests of the two handlers overlap
UploadRequestConc(p) ==
  opCount < MaxConcOps /\ UploadRequestFrom(p, ConcUploadInputs)

RollbackRequestConc(p) == opCount < MaxConcOps /\ RollbackRequest(p)

NextConc ==
  \E p \in Procs :
    \/ UploadRequestConc(p)
    \/ RollbackRequestConc(p)
    \/ Step(p)
    \/ UploadDeleteBlocked(p)
    \/ UploadDeleteResume(p)
    \/ RollbackDeleteBlocked(p)
    \/ RollbackDeleteResume(p)

SpecConc == InitConc /\ [][NextConc]_vars

\* ------------------------------------------------------------------------
\* The version functions on their own
\* ------------------------------------------------------------------------
VersionChars == { "0", "2", "9", ".", "v", "V", " ", "a" }

RECURSIVE StringsUpTo(_)
StringsUpTo(n) ==
  IF n = 0 THEN { << >> }
  ELSE LET shorter == StringsUpTo(n - 1)
       IN  shorter \cup { Append(s, c) : s \in shorter, c \in VersionChars }

\* the strings handed to _parse_version and _bump_version
VersionInputs ==
  StringsUpTo(MaxLen)
    \cup { None, << "a", "b", "c" >>, << "2", ".", "5", ".", "1" >>,
           << "1", "2", ".", "9", "9" >> }

\* the bump kinds of the form field; anything but 'major' counts as minor
BumpKinds == { "major", "minor", "patch" }

InitVersion ==
  InitFrom({ V10 }, { [NoFn EXCEPT !.pc = "input", !.v = v] : v \in VersionInputs })

ApplyParse ==
  /\ fn.pc = "input"
  /\ fn' = [fn EXCEPT !.pc = "parsed", !.parsed = _parse_version(fn.v)]
  /\ UNCHANGED << documents, document_versions, chunks, pc, req, loc, tx,
                  resp, opCount, pre, lastChange, ocr, lang >>

ApplyBump ==
  /\ fn.pc = "input"
  /\ \E b \in BumpKinds :
       fn' = [fn EXCEPT !.pc = "bumped", !.bump = b,
                        !.bumped = _bump_version(fn.v, b)]
  /\ UNCHANGED << documents, document_versions, chunks, pc, req, loc, tx,
                  resp, opCount, pre, lastChange, ocr, lang >>

NextVersion == ApplyParse \/ ApplyBump

SpecVersion == InitVersion /\ [][NextVersion]_vars

\* ------------------------------------------------------------------------
\* Properties
\* ------------------------------------------------------------------------
\* the baseline snapshots among a set of version rows
Baselines(rows) == { r \in rows : r.change_summary = InitialSummary }

\* the most recently created row of a non-empty set of version rows
LastRow(rows) == CHOOSE r \in rows : \A x \in rows : x.id <= r.id

\* C1: a failed upload_new_version or rollback_version leaves the chunks,
\* the version history and the document row exactly as they were before the
\* call, whichever step failed (all-or-nothing re-indexing)
C1_AllOrNothing ==
  \A p \in Procs :
    (pc[p] = "done" /\ ~resp[p].ok) => store = pre[p]

\* an upload that had inserted its baseline and deleted the chunks fails
\* before the first chunk insert
C1_Witness ==
  \E p \in Procs :
    /\ pc[p] = "done" /\ ~resp[p].ok /\ req[p].kind = "upload"
    /\ resp[p].failed_at = "u_insert_chunk" /\ loc[p].i = 0
    /\ loc[p].prev_ver # None /\ pre[p][2] = {}
    /\ pre[p][3] # {}

\* C2: two overlapping uploads on a document without history, in which no
\* step failed, leave exactly one baseline snapshot once both have committed
C2_OneBaselineAfterRace ==
  (\A p \in Procs :
      /\ pc[p] = "done" /\ resp[p].ok /\ req[p].kind = "upload"
      /\ pre[p][2] = {} /\ ~loc[p].skipped)
  => Cardinality(Baselines(document_versions)) = 1

\* C8: bumping a well-formed m.n gives m.(n+1) or (m+1).0, and the malformed
\* versions "", None, "abc" and "v" are bumped as 1.0
C8_BumpRule ==
  (fn.pc = "bumped" /\ fn.bump \in { "major", "minor" }) =>
    /\ \A k \in 1..Len(fn.v) :
         LET ms == SubSeq(fn.v, 1, k - 1)
             ns == SubSeq(fn.v, k + 1, Len(fn.v))
         IN  (fn.v[k] = "." /\ IsDigit(ms) /\ IsDigit(ns)) =>
               fn.bumped =
                 IF fn.bump = "major"
                 THEN IntToStr(ToInt(ms) + 1) \o << ".", "0" >>
                 ELSE IntToStr(ToInt(ms)) \o << "." >> \o IntToStr(ToInt(ns) + 1)
    /\ fn.v \in { << >>, None, << "a", "b", "c" >>, << "v" >> } =>
         fn.bumped = IF fn.bump = "major" THEN << "2", ".", "0" >>
                     ELSE << "1", ".", "1" >>

\* a minor bump of 2.9 carries into 2.10
C8_Witness ==
  /\ fn.pc = "bumped" /\ fn.bump = "minor"
  /\ fn.v = << "2", ".", "9" >> /\ fn.bumped = << "2", ".", "1", "0" >>

\* the parse that C9 describes: only a leading v is dropped
ParseVersionClaimed(v) ==
  IF v = None \/ v = << >> THEN << 1, 0 >>
  ELSE LET low   == Lower(Strip(v))
           cut   == IF low # << >> /\ Head(low) = "v" THEN Tail(low) ELSE low
           parts == Split(cut, ".")
       IN  << IF Len(parts) > 0 /\ IsDigit(parts[1]) THEN ToInt(parts[1]) ELSE 1,
              IF Len(parts) > 1 /\ IsDigit(parts[2]) THEN ToInt(parts[2]) ELSE 0 >>

\* C9: _parse_version drops only a leading v/V, so that a v elsewhere makes
\* its segment non-numeric (major 1, minor 0)
C9_ParseAsClaimed ==
  fn.pc = "parsed" => fn.parsed = ParseVersionClaimed(fn.v)

\* the call of p was an upload (a rollback) that returned ok
UploadOk(p) == pc[p] = "done" /\ resp[p].ok /\ req[p].kind = "upload"

RollbackOk(p) == pc[p] = "done" /\ resp[p].ok /\ req[p].kind = "rollback"

\* C3: with requests served one after the other, the history never holds
\* more than one baseline snapshot, and the baseline is its oldest row
C3_AtMostOneBaseline ==
  \A p \in Procs :
    /\ Cardinality(Baselines(VisibleVersions(p))) <= 1
    /\ \A b \in Baselines(document_versions) :
         \A r \in document_versions : b.id <= r.id

\* an upload has succeeded on a document that a rollback had put back to
\* another snapshot than the latest, and the history holds one baseline
C3_Witness ==
  \E p \in Procs :
    /\ UploadOk(p)
    /\ pre[p][2] # {}
    /\ pre[p][1][DocId].metadata # LastRow(pre[p][2]).metadata
    /\ Cardinality(Baselines(document_versions)) = 1
    /\ Cardinality(document_versions) >= 3

\* C4: after a successful rollback to snapshot S the document row holds
\* exactly S's content and S's metadata
C4_RollbackRestoresSnapshot ==
  \A p \in Procs :
    RollbackOk(p) =>
      \E S \in document_versions :
        /\ S.id = req[p].version_id /\ S.document_id = req[p].document_id
        /\ documents[req[p].document_id] =
             [content |-> S.content, metadata |-> S.metadata]

\* a rollback to a baseline without a version field has changed the document
C4_Witness ==
  \E p \in Procs :
    /\ RollbackOk(p)
    /\ documents[DocId] # pre[p][1][DocId]
    /\ documents[DocId].metadata.version = None

\* C5: a rollback, successful or failed, leaves the version history as it was
C5_RollbackKeepsHistory ==
  \A p \in Procs :
    (pc[p] = "done" /\ req[p].kind = "rollback") =>
      document_versions = pre[p][2]

\* a rollback has succeeded on a document with three snapshots
C5_Witness ==
  \E p \in Procs :
    /\ RollbackOk(p)
    /\ Cardinality(document_versions) >= 3
    /\ documents[DocId] # pre[p][1][DocId]

\* C6: metadata.version of the document is the version of the latest
\* history row, or after a rollback the version in the restored snapshot's
\* metadata
C6_VersionReflectsHistory ==
  document_versions # {} =>
    IF lastChange.kind = "rollback"
    THEN \E S \in document_versions :
           /\ S.id = lastChange.version_id
           /\ documents[DocId].metadata.version = S.metadata.version
    ELSE documents[DocId].metadata.version = LastRow(document_versions).version

\* after a rollback the document's version differs from the latest row's
C6_Witness ==
  /\ lastChange.kind = "rollback"
  /\ Cardinality(document_versions) >= 2
  /\ documents[DocId].metadata.version # LastRow(document_versions).version

\* no step of the call of p failed
NoStepFailed(p) == ~loc[p].skipped

C10_ExplicitVersionOverrides ==
  \A p \in Procs :
    UploadOk(p) =>
      /\ documents[DocId].metadata.version = resp[p].version
      /\ IF req[p].version # None /\ Strip(req[p].version) # << >>
         THEN resp[p].version = Strip(req[p].version)
         ELSE resp[p].version =
                _bump_version(pre[p][1][DocId].metadata.version, req[p].bump)

\* the padded explicit version " 3.1 " was recorded as 3.1, not as the bump
C10_Witness ==
  \E p \in Procs :
    /\ UploadOk(p)
    /\ req[p].version = << " ", "3", ".", "1", " " >>
    /\ resp[p].version = << "3", ".", "1" >>
    /\ _bump_version(pre[p][1][DocId].metadata.version, req[p].bump)
         # << "3", ".", "1" >>

\* (major, minor) pairs in their order
VersionLess(a, b) == a[1] < b[1] \/ (a[1] = b[1] /\ a[2] < b[2])

\* C11: the version recorded by a successful upload is strictly greater, as
\* a (major, minor) pair, than the version the document carried before
C11_UploadMovesForward ==
  \A p \in Procs :
    UploadOk(p) =>
      VersionLess(_parse_version(pre[p][1][DocId].metadata.version),
                  _parse_version(resp[p].version))

\* ------------------------------------------------------------------------
\* Language resolver (ingestion/ocr.py)
\* ------------------------------------------------------------------------
\* str.replace(a, b) for single characters
ReplaceChar(s, a, b) == [i \in 1..Len(s) |-> IF s[i] = a THEN b ELSE s[i]]

\* [token.strip() for token in parts if token.strip()]
RECURSIVE StripNonEmpty(_)
StripNonEmpty(parts) ==
  IF parts = << >> THEN << >>
  ELSE IF Strip(Head(parts)) = << >> THEN StripNonEmpty(Tail(parts))
  ELSE << Strip(Head(parts)) >> \o StripNonEmpty(Tail(parts))

\* _split_languages: the codes of a comma / semicolon separated spec
_split_languages(spec) ==
  IF spec = None \/ spec = << >> THEN << >>
  ELSE StripNonEmpty(Split(ReplaceChar(spec, ";", ","), ","))

InSeq(x, seq) == \E i \in 1..Len(seq) : seq[i] = x

\* the mutant of AppendFallbacks: every fallback is appended
RECURSIVE AppendFallbacksAlways(_, _)
AppendFallbacksAlways(attempts, fallbacks) ==
  IF fallbacks = << >> THEN attempts
  ELSE AppendFallbacksAlways(Append(attempts, Head(fallbacks)), Tail(fallbacks))

\* for fallback in fallbacks: append it unless it is already in attempts
RECURSIVE AppendFallbacks(_, _)
AppendFallbacks(attempts, fallbacks) ==
  IF fallbacks = << >> THEN attempts
  ELSE AppendFallbacks(
         IF Head(fallbacks) # << >> /\ ~InSeq(Head(fallbacks), attempts)
         THEN Append(attempts, Head(fallbacks)) ELSE attempts,
         Tail(fallbacks))

\* _resolve_language_attempts, with the two configured specs it reads
_resolve_language_attempts(languages, default_lang, fallback_lang) ==
  LET attempts == AppendFallbacks(
                    _split_languages(IF languages = None \/ languages = << >>
                                     THEN default_lang ELSE languages),
                    _split_languages(fallback_lang))
  IN  IF attempts = << >> THEN << << "eng" >> >> ELSE attempts

\* OCR_LANGUAGES and OCR_FALLBACK_LANGUAGES as the code defaults them
_DEFAULT_LANG == << "vie", "+", "eng" >>
_FALLBACK_LANG == << "eng" >>

HintChars == { "eng", "vie", ",", ";", " ", "+" }

RECURSIVE HintsUpTo(_)
HintsUpTo(n) ==
  IF n = 0 THEN { << >> }
  ELSE LET shorter == HintsUpTo(n - 1)
       IN  shorter \cup { Append(s, c) : s \in shorter, c \in HintChars }

\* the requested language hints
LangInputs == HintsUpTo(MaxHintLen) \cup { None }

\* values of the two environment variables
DefaultSpecs == { _DEFAULT_LANG, << >>, << "vie" >> }
FallbackSpecs == { _FALLBACK_LANG, << >>, << "vie", ";", "eng", ",", "vie" >> }

InitLang ==
  /\ InitStore({ V10 }, { NoFn })
  /\ ocr = NoOcr
  /\ lang \in { [NoLang EXCEPT !.pc = "input", !.requested = r,
                                !.default = d, !.fallback = f] :
                 r \in LangInputs, d \in DefaultSpecs, f \in FallbackSpecs }

\* one call of _resolve_language_attempts
ApplyResolve ==
  /\ lang.pc = "input"
  /\ lang' = [lang EXCEPT
                !.pc = "done",
                !.attempts = _resolve_language_attempts(
                               lang.requested, lang.default, lang.fallback)]
  /\ UNCHANGED << documents, document_versions, chunks, pc, req, loc, tx,
                  resp, opCount, pre, lastChange, fn, ocr >>

NextLang == ApplyResolve

SpecLang == InitLang /\ [][NextLang]_vars

\* the codes of a spec as the documentation describes them: the maximal runs
\* between separators, trimmed, the empty ones left out
RECURSIVE Fields(_, _)
Fields(s, cur) ==
  IF s = << >> THEN (IF Strip(cur) = << >> THEN << >> ELSE << Strip(cur) >>)
  ELSE IF Head(s) \in { ",", ";" }
       THEN (IF Strip(cur) = << >> THEN << >> ELSE << Strip(cur) >>)
            \o Fields(Tail(s), << >>)
       ELSE Fields(Tail(s), Append(cur, Head(s)))

NoDuplicates(seq) == \A i, j \in 1..Len(seq) : seq[i] = seq[j] => i = j

\* position of the first occurrence of x in seq
FirstIndex(x, seq) == CHOOSE i \in 1..Len(seq) :
                        seq[i] = x /\ \A j \in 1..(i - 1) : seq[j] # x

RequestedCodes ==
  Fields(IF lang.requested = None \/ lang.requested = << >>
         THEN lang.default ELSE lang.requested, << >>)

FallbackCodes == Fields(lang.fallback, << >>)

\* C19: the resolved list is never empty; it is the requested codes (or the
\* default spec's, when no hint is given) in order, then every fallback code
\* not already present, once, in first-seen order; and exactly ["eng"] when
\* that would be empty
C19_ResolveOrder ==
  lang.pc = "done" =>
    LET res == lang.attempts
        n == Len(RequestedCodes)
        rest == SubSeq(res, n + 1, Len(res))
    IN  /\ res # << >>
        /\ (RequestedCodes = << >> /\ FallbackCodes = << >>)
             => res = << << "eng" >> >>
        /\ (RequestedCodes # << >> \/ FallbackCodes # << >>) =>
             /\ Len(res) >= n
             /\ SubSeq(res, 1, n) = RequestedCodes
             /\ NoDuplicates(rest)
             /\ \A i \in 1..Len(rest) :
                  InSeq(rest[i], FallbackCodes) /\ ~InSeq(rest[i], RequestedCodes)
             /\ \A i \in 1..Len(FallbackCodes) :
                  InSeq(FallbackCodes[i], RequestedCodes)
                    \/ InSeq(FallbackCodes[i], rest)
             /\ \A i, j \in 1..Len(rest) :
                  i < j => FirstIndex(rest[i], FallbackCodes)
                             < FirstIndex(rest[j], FallbackCodes)

\* a hint whose fallback is already requested, and a fallback spec that
\* repeats a code, have been resolved
C19_Witness ==
  /\ lang.pc = "done"
  /\ lang.requested = << "vie", ",", "eng" >>
  /\ lang.fallback = << "vie", ";", "eng", ",", "vie" >>
  /\ lang.attempts = << << "vie" >>, << "eng" >> >>

\* C20: the resolved list holds no language twice
C20_Deduplicated ==
  lang.pc = "done" => NoDuplicates(lang.attempts)

\* ------------------------------------------------------------------------
\* Text extraction (ingestion/ocr.py)
\* ------------------------------------------------------------------------
\* the exception err leaving extract_text
Fail(err, detail) == [NoResult EXCEPT !.error = err, !.detail = detail]

\* what page.extract_text() does on one page: raise, or return a text
\* (None and "" alike count as "")
PageOutcomes ==
  { [raises |-> TRUE, text |-> << >>],
    [raises |-> FALSE, text |-> << >>],
    [raises |-> FALSE, text |-> << " " >>],
    [raises |-> FALSE, text |-> << "a" >>],
    [raises |-> FALSE, text |-> << " ", "b" >>] }

RECURSIVE PagesUpTo(_)
PagesUpTo(n) ==
  IF n = 0 THEN { << >> }
  ELSE LET shorter == PagesUpTo(n - 1)
       IN  shorter \cup { Append(s, o) : s \in shorter, o \in PageOutcomes }

\* what pytesseract.image_to_string does on one attempt
RecognizerOutcomes ==
  { [kind |-> "text", text |-> << "x" >>],
    [kind |-> "text", text |-> << " ", "y", "\n" >>],
    [kind |-> "text", text |-> << " " >>],
    [kind |-> "text", text |-> << >>],
    [kind |-> "TesseractError", text |-> << >>],
    [kind |-> "TesseractNotFoundError", text |-> << >>] }

\* what convert_from_path does: raise an error of its own, or return the
\* images of n pages
RasterOutcomes ==
  { [raises |-> TRUE, n |-> 0] } \cup { [raises |-> FALSE, n |-> n] : n \in 0..MaxPages }

DepsConfigs ==
  { AllDeps,
    [AllDeps EXCEPT !.Image = FALSE],
    [AllDeps EXCEPT !.pytesseract = FALSE],
    [AllDeps EXCEPT !.convert_from_path = FALSE],
    [AllDeps EXCEPT !.PdfReader = FALSE],
    [AllDeps EXCEPT !.convert_from_path = FALSE, !.PdfReader = FALSE] }

\* the file at the path: an image, a PDF, a file of another type, or none
FileKinds == { "image", "pdf", "other", "missing" }

OcrHints == { None, << "eng" >>, << "vie", ",", "eng" >>, << "eng", ",", "eng" >> }

InitOCR ==
  /\ InitStore({ V10 }, { NoFn })
  /\ lang = NoLang
  /\ ocr \in { [NoOcr EXCEPT !.pc = "start", !.kind = k, !.hint = h, !.deps = d,
                             !.reader_ok = r, !.direct_pages = dp] :
               k \in FileKinds, h \in OcrHints, d \in DepsConfigs,
               r \in BOOLEAN, dp \in PagesUpTo(MaxPages) }
  /\ ocr.kind # "pdf" => ocr.reader_ok /\ ocr.direct_pages = << >>

OtherVars == << documents, document_versions, chunks, pc, req, loc, tx, resp,
                opCount, pre, lastChange, fn, lang >>

\* _ensure_dependencies: the error it raises, or NoResult
_ensure_dependencies(kind, deps) ==
  IF ~deps.Image
  THEN Fail("OCRError", "Pillow is required")
  ELSE IF kind \in { "image", "pdf" } /\ ~deps.pytesseract
  THEN Fail("OCRError", "pytesseract is required")
  ELSE IF kind = "pdf" /\ ~deps.convert_from_path /\ ~deps.PdfReader
  THEN Fail("OCRError", "neither pdf2image nor pypdf")
  ELSE NoResult

\* extract_text up to its dispatch on the suffix
OcrExtractText ==
  /\ ocr.pc = "start"
  /\ ocr' =
       IF ocr.kind = "missing"
       THEN [ocr EXCEPT !.pc = "done", !.result = Fail("FileNotFoundError", "File not found")]
       ELSE IF _ensure_dependencies(ocr.kind, ocr.deps) # NoResult
       THEN [ocr EXCEPT !.pc = "done",
                        !.result = _ensure_dependencies(ocr.kind, ocr.deps)]
       ELSE IF ocr.kind = "image" THEN [ocr EXCEPT !.pc = "image"]
       ELSE IF ocr.kind = "pdf" THEN [ocr EXCEPT !.pc = "pdf"]
       ELSE [ocr EXCEPT !.pc = "done",
                        !.result = Fail("OCRError", "Unsupported file type")]
  /\ UNCHANGED OtherVars

\* a call on a capability, or the closing of a page image
NoOutcome == [kind |-> "none", text |-> << >>]

Event(op, page, code, out) == [op |-> op, page |-> page, lang |-> code, out |-> out]

\* the candidate languages of a call, under the default configuration
Candidates(hint) == _resolve_language_attempts(hint, _DEFAULT_LANG, _FALLBACK_LANG)

\* _extract_from_image up to the recognition: Image.open may fail on the file
OcrOpenImage ==
  /\ ocr.pc = "image"
  /\ \E opens \in BOOLEAN :
       ocr' = IF opens
              THEN [ocr EXCEPT !.pc = "recognize", !.candidates = Candidates(ocr.hint),
                               !.images = 1, !.page = 1, !.li = 1]
              ELSE [ocr EXCEPT !.pc = "done", !.candidates = Candidates(ocr.hint),
                               !.result = Fail("Other", "cannot open image")]
  /\ UNCHANGED OtherVars

\* "\n\n".join(chunks)
RECURSIVE Join(_)
Join(parts) ==
  IF parts = << >> THEN << >>
  ELSE IF Len(parts) = 1 THEN Head(parts)
  ELSE Head(parts) \o << "\n", "\n" >> \o Join(Tail(parts))

\* the chunk of one page in the direct-text phase: "" when extract_text raises
DirectChunk(o) == IF o.raises THEN << >> ELSE o.text

\* the mutant of DirectChunks: one failing page loses the text of all pages
DirectChunksAllOrNothing(pages) ==
  IF \E i \in 1..Len(pages) : pages[i].raises THEN << >>
  ELSE StripNonEmpty([i \in 1..Len(pages) |-> DirectChunk(pages[i])])

\* direct_chunks: the trimmed non-blank page texts
DirectChunks(pages) ==
  StripNonEmpty([i \in 1..Len(pages) |-> DirectChunk(pages[i])])

\* the calls of page.extract_text(), one per page, in page order
ExtractEvents(pages) == [i \in 1..Len(pages) |-> Event("extract_text", i, << >>, NoOutcome)]

\* the direct-text phase of _extract_from_pdf
OcrPdfDirect ==
  /\ ocr.pc = "pdf"
  /\ ocr' =
       IF ~ocr.deps.PdfReader THEN [ocr EXCEPT !.pc = "raster"]
       ELSE IF ~ocr.reader_ok
       THEN [ocr EXCEPT !.pc = "raster",
                        !.log = Append(@, Event("PdfReader failed", 0, << >>, NoOutcome))]
       ELSE LET direct_text == Strip(Join(DirectChunks(ocr.direct_pages)))
                log == ocr.log \o ExtractEvents(ocr.direct_pages)
            IN  IF direct_text # << >>
                THEN [ocr EXCEPT
                        !.pc = "done", !.log = log,
                        !.result = [NoResult EXCEPT
                                      !.ok = TRUE, !.text = direct_text,
                                      !.engine = "pypdf", !.source = "pdf_text",
                                      !.page_count = Len(ocr.direct_pages),
                                      !.used_ocr = FALSE]]
                ELSE [ocr EXCEPT !.pc = "raster", !.log = log]
  /\ UNCHANGED OtherVars

\* the start of the recognition phase of _extract_from_pdf: rasterize the pages
OcrRasterize ==
  /\ ocr.pc = "raster"
  /\ IF ~ocr.deps.convert_from_path
     THEN ocr' = [ocr EXCEPT !.pc = "done",
                             !.result = Fail("OCRError", "pdf2image is required")]
     ELSE \E o \in RasterOutcomes :
            ocr' =
              IF o.raises
              THEN [ocr EXCEPT !.pc = "done",
                               !.log = Append(@, Event("convert_from_path", 0, << >>, NoOutcome)),
                               !.result = Fail("Other", "rasterizer error")]
              ELSE IF o.n = 0
              THEN [ocr EXCEPT !.pc = "done",
                               !.log = Append(@, Event("convert_from_path", 0, << >>, NoOutcome)),
                               !.result = Fail("OCRError", "No pages found")]
              ELSE [ocr EXCEPT !.pc = "recognize",
                               !.log = Append(@, Event("convert_from_path", 0, << >>, NoOutcome)),
                               !.candidates = Candidates(ocr.hint),
                               !.images = o.n, !.page = 1, !.li = 1]
  /\ UNCHANGED OtherVars

\* the mutant of Succeeds: a blank output counts as a failed attempt
SucceedsNonBlank(o) == o.kind = "text" /\ Strip(o.text) # << >>

\* image_to_string returned: the attempt wins (ocr.py:191-192)
Succeeds(o) == o.kind = "text"

\* the mutant of IsFatal: a missing engine is a failure like any other
IsFatalNever(o) == FALSE

\* image_to_string raised TesseractNotFoundError (ocr.py:193-197)
IsFatal(o) == o.kind = "TesseractNotFoundError"

\* the mutant of Exhausted: the first failing language ends the loop
ExhaustedAtFirst(li, candidates) == TRUE

\* the failed attempt was the one on the last candidate (ocr.py:186, 203)
Exhausted(li, candidates) == li >= Len(candidates)

\* where control goes when _run_tesseract is left for the last time
AfterRecognition == IF ocr.kind = "image" THEN "image_return" ELSE "cleanup"

\* one pass of the language loop of _run_tesseract on the current page image,
\* with what follows it when the loop is left: the caller's bookkeeping for
\* the page, the next page, or the exception on its way out
OcrAttempt ==
  /\ ocr.pc = "recognize"
  /\ IF ~ocr.deps.pytesseract
     THEN ocr' = [ocr EXCEPT !.pc = AfterRecognition,
                             !.pending = Fail("OCRError", "pytesseract is not installed")]
     ELSE \E o \in RecognizerOutcomes :
       LET code == ocr.candidates[ocr.li]
           log == Append(ocr.log, Event("image_to_string", ocr.page, code, o))
           errors == Append(ocr.errors, [lang |-> code, reason |-> o.kind])
       IN  ocr' =
             IF Succeeds(o)
             THEN [ocr EXCEPT
                     !.log = log,
                     !.ocr_text_chunks = Append(@, Strip(o.text)),
                     !.used_languages = Append(@, code),
                     !.errors = << >>,
                     !.li = 1,
                     !.page = IF ocr.page < ocr.images THEN @ + 1 ELSE @,
                     !.pc = IF ocr.page < ocr.images THEN "recognize"
                            ELSE AfterRecognition]
             ELSE IF IsFatal(o)
             THEN [ocr EXCEPT
                     !.log = log, !.pc = AfterRecognition,
                     !.pending = Fail("OCRError", "Tesseract binary not found")]
             ELSE IF Exhausted(ocr.li, ocr.candidates)
             THEN [ocr EXCEPT
                     !.log = log, !.errors = errors, !.pc = AfterRecognition,
                     !.pending = [Fail("OCRError", "Tesseract failed for all language candidates")
                                    EXCEPT !.errors = errors]]
             ELSE [ocr EXCEPT !.log = log, !.errors = errors, !.li = @ + 1]
  /\ UNCHANGED OtherVars

\* the end of _extract_from_image: the image is closed, the result returned
OcrImageReturn ==
  /\ ocr.pc = "image_return"
  /\ ocr' = [ocr EXCEPT
               !.pc = "done",
               !.released = { 1 },
               !.result = IF ocr.pending # NoResult THEN ocr.pending
                          ELSE [NoResult EXCEPT
                                  !.ok = TRUE, !.text = ocr.ocr_text_chunks[1],
                                  !.engine = "tesseract", !.source = "image",
                                  !.languages = ocr.used_languages[1],
                                  !.used_ocr = TRUE]]
  /\ UNCHANGED OtherVars

\* the mutant of _dedupe_preserve_order: every item is kept
DedupeKeepsAll(items) == items

\* _dedupe_preserve_order
RECURSIVE _dedupe_preserve_order(_)
_dedupe_preserve_order(items) ==
  IF items = << >> THEN << >>
  ELSE LET before == _dedupe_preserve_order(SubSeq(items, 1, Len(items) - 1))
           item == items[Len(items)]
       IN  IF item # << >> /\ ~InSeq(item, before) THEN Append(before, item)
           ELSE before

\* the mutant of ClosedImages: an exception leaves the later pages open
ClosedImagesUpToPage(images, page, failed) ==
  IF failed THEN 1..page ELSE 1..images

\* the images closed by the finally clause (ocr.py:161-166)
ClosedImages(images, page, failed) == 1..images

\* the finally clause of the page loop of _extract_from_pdf and what follows
\* it: the exception goes on, or the result is built
OcrPdfCleanup ==
  /\ ocr.pc = "cleanup"
  /\ LET closed == ClosedImages(ocr.images, ocr.page, ocr.pending # NoResult)
         log == ocr.log \o [i \in 1..Cardinality(closed) |-> Event("close", i, << >>, NoOutcome)]
         combined_text == Strip(Join(StripNonEmpty(ocr.ocr_text_chunks)))
     IN  ocr' = [ocr EXCEPT
                   !.pc = "done", !.released = closed, !.log = log,
                   !.result = IF ocr.pending # NoResult THEN ocr.pending
                              ELSE [NoResult EXCEPT
                                      !.ok = TRUE, !.text = combined_text,
                                      !.engine = "tesseract", !.source = "pdf_ocr",
                                      !.page_count = ocr.images,
                                      !.languages = _dedupe_preserve_order(ocr.used_languages),
                                      !.used_ocr = TRUE]]
  /\ UNCHANGED OtherVars

NextOCR ==
  \/ OcrExtractText
  \/ OcrOpenImage
  \/ OcrPdfDirect
  \/ OcrRasterize
  \/ OcrAttempt
  \/ OcrImageReturn
  \/ OcrPdfCleanup

SpecOCR == InitOCR /\ [][NextOCR]_vars

\* the call of extract_text has returned or raised
OcrDone == ocr.pc = "done"

\* the calls of op made so far, in order
RECURSIVE EventsOf(_, _)
EventsOf(log, op) ==
  IF log = << >> THEN << >>
  ELSE IF Head(log).op = op THEN << Head(log) >> \o EventsOf(Tail(log), op)
  ELSE EventsOf(Tail(log), op)

Recognitions == EventsOf(ocr.log, "image_to_string")

Rasterizations == EventsOf(ocr.log, "convert_from_path")

\* C12: extract_text never returns a success with empty text: the text of a
\* returned result is non-empty, and its used_ocr flag is true exactly when
\* recognition was invoked
C12_NoEmptySuccess ==
  (OcrDone /\ ocr.kind \in { "image", "pdf" } /\ ocr.result.ok) =>
    /\ ocr.result.text # << >>
    /\ ocr.result.used_ocr <=> (Recognitions # << >>)

\* page i yielded non-blank text in the direct-text phase
Yielded(i) ==
  /\ i \in 1..Len(ocr.direct_pages)
  /\ Event("extract_text", i, << >>, NoOutcome) \in { ocr.log[j] : j \in 1..Len(ocr.log) }
  /\ ~ocr.direct_pages[i].raises
  /\ Strip(ocr.direct_pages[i].text) # << >>

\* C13: once a page of the PDF has yielded non-blank selectable text, the call
\* returns source=pdf_text with used_ocr=false, and neither the rasterizer nor
\* the recognizer is ever invoked, whatever direct extraction does on the
\* other pages
C13_DirectTextWins ==
  (ocr.kind = "pdf" /\ \E i \in 1..MaxPages : Yielded(i)) =>
    /\ OcrDone
    /\ ocr.result.ok
    /\ ocr.result.source = "pdf_text"
    /\ ~ocr.result.used_ocr
    /\ Rasterizations = << >>
    /\ Recognitions = << >>

\* a PDF whose first page fails in direct extraction and whose second page
\* yields text has been extracted
C13_Witness ==
  /\ OcrDone
  /\ ocr.kind = "pdf"
  /\ Len(ocr.direct_pages) = 2
  /\ ocr.direct_pages[1].raises
  /\ Yielded(2)
  /\ ocr.result.text = << "a" >>

\* the PDF has no selectable text: no page has text that is not blank
NoSelectableText ==
  /\ ocr.kind = "pdf"
  /\ \A i \in 1..Len(ocr.direct_pages) : Strip(ocr.direct_pages[i].text) = << >>

\* the pages on which recognition has been invoked
RecognizedPages == { Recognitions[j].page : j \in 1..Len(Recognitions) }

\* the result fields of the recognition phase, from the calls made: the
\* winner of a page is the language of the last attempt on it
Winner(p) ==
  LET js == { j \in 1..Len(Recognitions) : Recognitions[j].page = p }
  IN  Recognitions[CHOOSE j \in js : \A k \in js : k <= j].lang

PdfOcrFields ==
  (OcrDone /\ ocr.result.ok) =>
    LET winners == [p \in 1..ocr.images |-> Winner(p)]
        langs == ocr.result.languages
    IN  /\ ocr.result.source = "pdf_ocr"
        /\ ocr.result.used_ocr
        /\ ocr.result.page_count = ocr.images
        /\ NoDuplicates(langs)
        /\ { langs[i] : i \in 1..Len(langs) } = { winners[p] : p \in 1..ocr.images }
        /\ \A i, j \in 1..Len(langs) :
             i < j => FirstIndex(langs[i], winners) < FirstIndex(langs[j], winners)

\* C14 as stated: for a PDF with no selectable text (every dependency being
\* installed) a finished call has invoked rasterization and then recognition
\* on every rasterized page, and when recognition succeeded on every page the
\* result has source=pdf_ocr, used_ocr=true, page_count = number of rasterized
\* pages and languages = the per-page winners, deduplicated in first-occurrence
\* order
C14_AsStated ==
  (NoSelectableText /\ ocr.deps = AllDeps /\ OcrDone) =>
    /\ Rasterizations # << >>
    /\ RecognizedPages = 1..ocr.images
    /\ PdfOcrFields

\* C14 amended: for a PDF with no selectable text, a finished call has invoked
\* rasterization whenever the rasterizer is installed, and then recognition on
\* the rasterized pages in page order up to and including the first page whose
\* recognition fails (every page when none fails); when recognition succeeded
\* on every page the result has source=pdf_ocr, used_ocr=true, page_count =
\* number of rasterized pages and languages = the per-page winners,
\* deduplicated in first-occurrence order
C14_Amended ==
  (NoSelectableText /\ OcrDone
     /\ _ensure_dependencies(ocr.kind, ocr.deps) = NoResult) =>
    /\ ocr.deps.convert_from_path <=> Rasterizations # << >>
    /\ \A j \in 1..Len(ocr.log) :
         ocr.log[j].op = "image_to_string" =>
           \E k \in 1..(j - 1) : ocr.log[k].op = "convert_from_path"
    /\ \A j, k \in 1..Len(Recognitions) :
         j < k => Recognitions[j].page <= Recognitions[k].page
    /\ \E last \in 0..ocr.images :
         /\ RecognizedPages = 1..last
         /\ \A p \in 1..(last - 1) : InSeq(Winner(p), ocr.used_languages)
         /\ last < ocr.images => ~ocr.result.ok
    /\ ocr.result.ok => RecognizedPages = 1..ocr.images
    /\ PdfOcrFields

\* a two-page scan on which the same language won both pages has been extracted
C14_Witness ==
  /\ NoSelectableText
  /\ OcrDone
  /\ ocr.result.ok
  /\ ocr.images = 2
  /\ ocr.used_languages = << << "eng" >>, << "eng" >> >>
  /\ ocr.result.languages = << << "eng" >> >>
  /\ ocr.result.page_count = 2

\* the attempts made on page p, in order
AttemptsOn(p) == SelectSeq(Recognitions, LAMBDA e : e.page = p)

\* C15: on every page the candidates are tried in list order and the loop
\* stops at the first attempt that returns: every attempt before the last one
\* on the page failed with an engine-level error, the language returned is the
\* one of the returning attempt, and the text is that attempt's trimmed output
C15_FirstSuccessWins ==
  \A p \in 1..ocr.images :
    LET A == AttemptsOn(p)
        n == Len(A)
    IN  /\ n <= Len(ocr.candidates)
        /\ \A j \in 1..n : A[j].lang = ocr.candidates[j]
        /\ \A j \in 1..(n - 1) : A[j].out.kind = "TesseractError"
        /\ (n > 0 /\ A[n].out.kind = "text") =>
             /\ Len(ocr.used_languages) >= p
             /\ ocr.used_languages[p] = ocr.candidates[n]
             /\ ocr.ocr_text_chunks[p] = Strip(A[n].out.text)

\* an image whose first candidate failed and whose second returned " y\n"
C15_Witness ==
  /\ OcrDone
  /\ ocr.kind = "image"
  /\ Len(AttemptsOn(1)) = 2
  /\ AttemptsOn(1)[1].out.kind = "TesseractError"
  /\ AttemptsOn(1)[2].out = [kind |-> "text", text |-> << " ", "y", "\n" >>]
  /\ ocr.result.ok
  /\ ocr.result.text = << "y" >>
  /\ ocr.result.languages = ocr.candidates[2]

EngineMissing == Fail("OCRError", "Tesseract binary not found")

\* C16: an attempt on which the recognizer reports the engine missing is the
\* last attempt of the call: the loop is left at once with OCRError, no
\* further language and no further page is attempted, and the call raises it
C16_EngineMissingIsFatal ==
  \A j \in 1..Len(Recognitions) :
    Recognitions[j].out.kind = "TesseractNotFoundError" =>
      /\ j = Len(Recognitions)
      /\ ocr.pc \in { "image_return", "cleanup", "done" }
      /\ ocr.pending = EngineMissing
      /\ OcrDone => ocr.result = EngineMissing

\* a two-page PDF with two candidates, the engine missing on the first attempt
C16_Witness ==
  /\ OcrDone
  /\ ocr.kind = "pdf"
  /\ ocr.images = 2
  /\ Len(ocr.candidates) = 2
  /\ Len(Recognitions) = 1
  /\ Recognitions[1].out.kind = "TesseractNotFoundError"
  /\ ocr.result = EngineMissing

AllFailed == "Tesseract failed for all language candidates"

\* every attempt in A failed with a per-language error
AllNonFatal(A) == \A j \in 1..Len(A) : A[j].out.kind = "TesseractError"

\* C17: the all-candidates-failed error is raised exactly when every candidate
\* has been attempted on the page and failed non-fatally; it carries one
\* reason per candidate, in attempt order; while a candidate is untried the
\* loop goes on and no failure has been surfaced
C17_AllFailedAggregates ==
  /\ ocr.pc = "recognize" => ocr.pending = NoResult
  /\ \A p \in 1..ocr.images :
       LET A == AttemptsOn(p)
       IN  (A # << >> /\ AllNonFatal(A)) =>
             IF Len(A) = Len(ocr.candidates)
             THEN /\ ocr.pending.error = "OCRError"
                  /\ ocr.pending.detail = AllFailed
                  /\ ocr.pending.errors =
                       [j \in 1..Len(A) |-> [lang |-> ocr.candidates[j],
                                             reason |-> "TesseractError"]]
                  /\ OcrDone => ocr.result = ocr.pending
             ELSE /\ ocr.pc = "recognize"
                  /\ ocr.page = p
                  /\ ocr.li = Len(A) + 1
  /\ ocr.pending.detail = AllFailed =>
       /\ Len(AttemptsOn(ocr.page)) = Len(ocr.candidates)
       /\ AllNonFatal(AttemptsOn(ocr.page))

\* both candidates of the hint "vie,eng" failed on an image
C17_Witness ==
  /\ OcrDone
  /\ ocr.candidates = << << "vie" >>, << "eng" >> >>
  /\ ocr.result.detail = AllFailed
  /\ Len(ocr.result.errors) = 2
  /\ ocr.result.errors[1].lang = << "vie" >>
  /\ ocr.result.errors[2].lang = << "eng" >>

Closings == EventsOf(ocr.log, "close")

\* C18: in the recognition phase of a PDF no page image is closed while the
\* page loop runs, and when the call has returned or raised every rasterized
\* page image has been closed, once, after the last recognition, however the
\* loop ended
C18_AllPagesReleased ==
  ocr.kind = "pdf" =>
    /\ ocr.pc \in { "recognize", "cleanup" } =>
         ocr.released = {} /\ Closings = << >>
    /\ (OcrDone /\ ocr.images > 0) =>
         /\ ocr.released = 1..ocr.images
         /\ Len(Closings) = ocr.images
         /\ { Closings[j].page : j \in 1..Len(Closings) } = 1..ocr.images
         /\ \A j, k \in 1..Len(ocr.log) :
              (ocr.log[j].op = "close" /\ ocr.log[k].op = "image_to_string") => k < j

\* a two-page PDF whose first page failed in every language: the second page,
\* never processed, is closed too
C18_Witness ==
  /\ OcrDone
  /\ ocr.kind = "pdf"
  /\ ocr.images = 2
  /\ RecognizedPages = { 1 }
  /\ ocr.result.detail = AllFailed
  /\ ocr.released = { 1, 2 }

\* ------------------------------------------------------------------------
\* Properties of the version endpoints, continued
\* ------------------------------------------------------------------------
CompareDone(p) == pc[p] = "done" /\ req[p].kind = "compare"

\* the selectors a compare request resolves
LeftSel(p) == SelOr(req[p].payload.left, SelOr(req[p].payload.left_version_id, Current))

RightSel(p) == SelOr(req[p].payload.right, req[p].payload.right_version_id)

\* the selector names nothing: 'current' of a missing document, or an id
\* that no snapshot of the document has
Unresolvable(document_id, selector) ==
  \/ selector.kind = "current" /\ document_id \notin DOMAIN documents
  \/ /\ selector.kind = "id"
     /\ ~\E r \in document_versions :
           r.document_id = document_id /\ r.id = selector.id

\* C21: a compare request one of whose selectors names no snapshot of the
\* document (or 'current' of a missing document) is answered with a
\* not-found error, never with a diff
C21_UnknownSelectorNotFound ==
  \A p \in Procs :
    (CompareDone(p) /\ RightSel(p).kind # "none" /\ resp[p].status # 500
       /\ (Unresolvable(req[p].document_id, LeftSel(p))
             \/ Unresolvable(req[p].document_id, RightSel(p))))
    => (~resp[p].ok /\ resp[p].status = 404)

\* every snapshot row of now is a row of the next state, and the only one
\* under its id there
SnapshotsKept ==
  \A r \in document_versions :
    /\ r \in document_versions'
    /\ \A r2 \in document_versions' : r2.id = r.id => r2 = r

\* C22: snapshots are immutable and append-only: over every step of uploads,
\* rollbacks and diffs, a snapshot row that exists still exists afterwards,
\* with the same version, change summary, content and metadata
C22_SnapshotsImmutable == [][SnapshotsKept]_vars

\* two uploads have left three snapshots and a compare has then been answered
C22_Witness ==
  /\ Cardinality(document_versions) >= 3
  /\ lastChange.kind = "upload"
  /\ opCount = MaxOps
  /\ \E p \in Procs : CompareDone(p) /\ resp[p].ok

BlankSummary(p) == req[p].kind = "upload" /\ Strip(req[p].change_summary) = << >>

\* C23: an upload whose change summary is empty or blank is refused with a
\* validation error before its transaction starts, the document row, the
\* chunks and the history staying as they were; so every snapshot other than
\* a baseline has a non-blank change summary
C23_SummaryRequired ==
  /\ \A p \in Procs :
       BlankSummary(p) =>
         /\ pc[p] = "done"
         /\ ~tx[p].active
         /\ ~resp[p].ok
         /\ resp[p].status = 400
         /\ store = pre[p]
  /\ \A r \in document_versions :
       r.change_summary # InitialSummary => Strip(r.change_summary) # << >>

\* an upload with the summary " " has been refused on a document with history
C23_Witness ==
  \E p \in Procs :
    /\ pc[p] = "done"
    /\ req[p].kind = "upload"
    /\ req[p].change_summary = << " " >>
    /\ resp[p].status = 400
    /\ document_versions # {}

\* a version string of the form major.minor with non-negative integers,
\* optionally prefixed by v (blanks around it apart)
WellFormedVersion(v) ==
  LET t == Strip(v)
      u == IF t # << >> /\ Head(t) \in { "v", "V" } THEN Tail(t) ELSE t
      parts == Split(u, ".")
  IN  Len(parts) = 2 /\ IsDigit(parts[1]) /\ IsDigit(parts[2])

\* the upload carries an explicit version that is not blank and is malformed
MalformedOverride(p) ==
  /\ req[p].kind = "upload"
  /\ req[p].version # None
  /\ Strip(req[p].version) # << >>
  /\ ~WellFormedVersion(req[p].version)

\* C24: an upload with a malformed explicit version is refused with a
\* validation error and records no snapshot and no change of the document
C24_MalformedVersionRefused ==
  \A p \in Procs :
    (pc[p] = "done" /\ MalformedOverride(p) /\ ~BlankSummary(p)
       /\ req[p].document_id \in DOMAIN documents /\ resp[p].status # 500)
    => (~resp[p].ok /\ resp[p].status = 400 /\ store = pre[p])

\* C25: no failure inside the transaction of an upload is suppressed: an
\* upload whose baseline existence check or baseline insert failed does not
\* report success
C25_NoSuppressedFailure ==
  \A p \in Procs : UploadOk(p) => ~loc[p].skipped

\* the stored chunks of a document, without their row ids
StoredChunks(doc_id) ==
  { [chunk_index |-> c.chunk_index, content |-> c.content, metadata |-> c.metadata] :
      c \in { x \in chunks : x.document_id = doc_id } }

\* the chunk list made in one pass from the stored content and metadata
ChunksOfStored(doc_id) ==
  LET seq == chunk_document(documents[doc_id].content, documents[doc_id].metadata)
  IN  { [chunk_index |-> seq[k].index, content |-> seq[k].content,
         metadata |-> seq[k].metadata] : k \in 1..Len(seq) }

\* both handlers have committed an upload or a rollback of the document, no
\* step of either having failed
BothCommitted ==
  \A p \in Procs :
    /\ pc[p] = "done" /\ resp[p].ok /\ req[p].document_id = DocId
    /\ ~loc[p].skipped

\* C26: once two overlapping upload/rollback transactions on the document
\* have both committed, its stored chunks are exactly the chunk list made in
\* one pass from the content and metadata stored on the document row
C26_ChunksOfOneContent ==
  BothCommitted => StoredChunks(DocId) = ChunksOfStored(DocId)

\* the transaction of p holds the snapshot of the new version
NewSnapshotInserted(p) == \E r \in tx[p].versions : r.id = 2 * req[p].op + 1

\* C27: within the transaction of one upload the steps keep their order: the
\* baseline existence check (and the baseline insert it calls for) is over
\* before the snapshot of the new version is inserted; every existing chunk
\* of the document is deleted before the first new chunk is inserted; the
\* snapshot insert and the update of the document row come only after every
\* new chunk has been inserted
C27_UploadStepOrder ==
  \A p \in Procs :
    (req[p].kind = "upload" /\ tx[p].active) =>
      /\ pc[p] \in { "u_get_doc", "u_baseline_check", "u_baseline_insert" } =>
           /\ ~NewSnapshotInserted(p)
           /\ tx[p].chunks = {} /\ tx[p].deleted = {} /\ ~tx[p].doc_written
      /\ NewSnapshotInserted(p) =>
           \/ loc[p].skipped
           \/ \E r \in VisibleVersions(p) :
                r.document_id = req[p].document_id /\ r.version = loc[p].prev_ver
      /\ pc[p] = "u_delete" => tx[p].chunks = {}
      /\ tx[p].chunks # {} => ChunkIdsOf(req[p].document_id) \subseteq tx[p].deleted
      /\ (NewSnapshotInserted(p) \/ tx[p].doc_written) =>
           /\ loc[p].i = Len(loc[p].embedded_chunks)
           /\ Cardinality(tx[p].chunks) = Len(loc[p].embedded_chunks)

\* an upload is about to commit: it inserted the baseline, deleted two
\* chunks, inserted two chunks, then the snapshot, then updated the row
C27_Witness ==
  \E p \in Procs :
    /\ pc[p] = "u_commit"
    /\ Cardinality(tx[p].versions) = 2
    /\ Cardinality(tx[p].deleted) = 2
    /\ Cardinality(tx[p].chunks) = 2
    /\ tx[p].doc_written

\* the request names a document that does not exist (upload), or a snapshot
\* that is not one of the document's (rollback)
MissingTarget(p) ==
  \/ /\ req[p].kind = "upload" /\ ~BlankSummary(p)
     /\ req[p].document_id \notin DOMAIN documents
  \/ /\ req[p].kind = "rollback"
     /\ ~\E r \in document_versions :
           r.document_id = req[p].document_id /\ r.id = req[p].version_id

\* C28: an upload on a missing document, and a rollback to a snapshot that is
\* not one of the document's, end at their lookup with a not-found error (or
\* the error of the lookup itself): nothing has been deleted or written, and
\* chunks, history and document rows are as before
C28_NotFoundBeforeAnyWrite ==
  \A p \in Procs :
    MissingTarget(p) =>
      /\ pc[p] \in { "u_get_doc", "r_get_version", "done" }
      /\ tx[p].versions = {} /\ tx[p].deleted = {} /\ tx[p].chunks = {}
      /\ ~tx[p].doc_written
      /\ pc[p] = "done" =>
           /\ ~resp[p].ok
           /\ resp[p].status \in { 404, 500 }
           /\ resp[p].failed_at \in { "u_get_doc", "r_get_version" }
           /\ store = pre[p]

\* a rollback naming an existing snapshot under a document id that does not
\* exist has been answered 404
C28_Witness ==
  \E p \in Procs :
    /\ pc[p] = "done"
    /\ req[p].kind = "rollback"
    /\ req[p].document_id = MissingDocId
    /\ \E r \in document_versions : r.id = req[p].version_id
    /\ resp[p].status = 404

\* C29: no two snapshots of a document carry the same version string
C29_VersionsUnique ==
  \A r1, r2 \in document_versions :
    (r1.document_id = r2.document_id /\ r1.version = r2.version) => r1 = r2

\* C30: after a successful rollback the version returned to the caller is
\* the metadata.version now stored on the document row
C30_RollbackVersionStored ==
  \A p \in Procs :
    RollbackOk(p) =>
      documents[req[p].document_id].metadata.version = resp[p].version

====
